---- MODULE Spec2Model ----
(***************************************************************************)
(* A model of the NSP (PFS0) archive builder of pkg/nsp/nsp.go:            *)
(* Builder.AddFile, Builder.AddFiles, Builder.Build, generateHeader and    *)
(* copyFileToNSP, together with the file system they act on.               *)
(*                                                                         *)
(* Paths, names and file contents are sequences of bytes (0..255).         *)
(* Offsets are 0-based as in the Go code; sequences are 1-based, so byte   *)
(* offset k of a buffer is element k+1.                                    *)
(*                                                                         *)
(* The uint32 and uint64 fields hold values far below 2^31 here (a name    *)
(* table of 2^32 bytes or a payload of 2^64 bytes is out of the bounds),   *)
(* so they are written as the low bytes of the value, which is what        *)
(* PutUint32 and PutUint64 write.  Progress output changes no state that   *)
(* Build reads and is left out; processedSize is kept.                     *)
(***************************************************************************)
EXTENDS Integers, Sequences, FiniteSets, TLC

\* ---------------------------------------------------------------- bounds
\* At most this many entries are registered before Build.
MaxEntries == 3
\* At most this many changes of source files by the environment.
MaxMutations == 1

\* ------------------------------------------------------- program constants
PFS0Magic == <<80, 70, 83, 48>>
DefaultBufferSize == 4096

\* ------------------------------------------------------------- the inputs
\* "d/b", "e/b" (two files with the same base name), "abc", "a", and "z", a
\* path that does not exist.
PathDB == <<100, 47, 98>>
PathEB == <<101, 47, 98>>
PathABC == <<97, 98, 99>>
PathA == <<97>>
PathMissing == <<122>>
Paths == {PathDB, PathEB, PathABC, PathA, PathMissing}

\* The contents of the source files when the program starts.
InitialData(p) ==
    CASE p = PathDB -> <<17, 18>>
      [] p = PathEB -> <<33>>
      [] p = PathABC -> <<>>
      [] p = PathA -> <<65>>
      [] OTHER -> <<>>

\* The values of Builder.BufferSize the caller configures: the zero value,
\* a buffer smaller than the files, and the command line's default.
BufferSizes == {0, 1, DefaultBufferSize}

\* What an output file left by an earlier run holds.
StaleData == <<255, 254>>

\* The byte counts a failing write of the header may have written.
ShortWrites == {0, 16}

\* Sequences over S of length 1..n.
RECURSIVE SeqsUpTo(_, _)
SeqsUpTo(S, n) ==
    IF n = 0 THEN {}
    ELSE LET shorter == SeqsUpTo(S, n - 1)
         IN  {<<x>> : x \in S} \cup shorter
                \cup {Append(s, x) : s \in shorter, x \in S}

\* The arguments of AddFiles: the lists of one to three of these paths
\* (AddFile is called with every path).
PathLists == SeqsUpTo({PathEB, PathABC, PathMissing}, 3)

\* ------------------------------------------------------------------ state
VARIABLES
    fs,            \* the source files: path -> [exists, data]
    mutations,     \* how many times the environment changed a source file
    outFile,       \* the file at OutputPath: [exists, data]
    outPos,        \* the position of the output file descriptor
    BufferSize,    \* Builder.BufferSize
    partEntries,   \* Builder.partEntries
    pc,            \* where Build is: idle, generated, headerWritten,
                   \* copying, copied, done, failed
    header,        \* the header Build generated
    idx,           \* the (1-based) entry copyFileToNSP was last called for
    inPos,         \* the position of the open source file descriptor
    bytesWritten,  \* copyFileToNSP's bytesWritten
    processedSize, \* Build's processedSize
    lastErr,       \* the error the last call returned ("nil" for none)
    lastCall,      \* the last call of AddFile/AddFiles: [n, stats]
    opened,        \* the entries opened by Build, in order
    lastWrite      \* the last payload write: [entry, off, len]

vars == <<fs, mutations, outFile, outPos, BufferSize, partEntries, pc, header,
          idx, inPos, bytesWritten, processedSize, lastErr, lastCall, opened,
          lastWrite>>

\* ---------------------------------------------------------------- helpers
Min(a, b) == IF a < b THEN a ELSE b

Max(a, b) == IF a > b THEN a ELSE b

SetMax(S) == CHOOSE x \in S : \A y \in S : y <= x

\* The path without its trailing slashes.
RECURSIVE StripTrailingSlashes(_)
StripTrailingSlashes(p) ==
    IF p # <<>> /\ p[Len(p)] = 47
    THEN StripTrailingSlashes(SubSeq(p, 1, Len(p) - 1))
    ELSE p

\* info.Name(): the base name of the path, as os.Stat fills it in: "." for
\* the empty path; trailing slashes are dropped, then everything up to the
\* last slash; "/" for a path of slashes only.
BaseName(p) ==
    IF p = <<>> THEN <<46>>
    ELSE LET q == StripTrailingSlashes(p)
             slashes == {i \in 1..Len(q) : q[i] = 47}
         IN  IF q = <<>> THEN <<47>>
             ELSE IF slashes = {} THEN q
             ELSE SubSeq(q, SetMax(slashes) + 1, Len(q))

\* Go's string comparison a < b: byte-wise lexicographic.
RECURSIVE StringLess(_, _)
StringLess(a, b) ==
    IF b = <<>> THEN FALSE
    ELSE IF a = <<>> THEN TRUE
    ELSE IF a[1] # b[1] THEN a[1] < b[1]
    ELSE StringLess(Tail(a), Tail(b))

\* binary.LittleEndian.PutUint32 / PutUint64: the n low bytes of v.
RECURSIVE LittleEndian(_, _)
LittleEndian(v, n) ==
    IF n = 0 THEN <<>> ELSE <<v % 256>> \o LittleEndian(v \div 256, n - 1)

\* copy(buf[pos:], bytes): bytes laid over buf from byte offset pos, cut at
\* the end of buf.
PutAt(buf, pos, bytes) ==
    [i \in 1..Len(buf) |->
        IF pos < i /\ i <= pos + Len(bytes) THEN bytes[i - pos] ELSE buf[i]]

Zeros(n) == [i \in 1..n |-> 0]

\* A write of bytes at position pos of a file holding data; a position past
\* the end leaves a hole of zero bytes.
WriteAt(data, pos, bytes) ==
    LET old == IF Len(data) < pos THEN data \o Zeros(pos - Len(data)) ELSE data
        newLen == IF Len(old) < pos + Len(bytes) THEN pos + Len(bytes)
                  ELSE Len(old)
    IN  [i \in 1..newLen |->
            IF pos < i /\ i <= pos + Len(bytes) THEN bytes[i - pos] ELSE old[i]]

\* ------------------------------------------------------------ registration
NewEntry(path) ==
    [path |-> path, name |-> BaseName(path), size |-> Len(fs[path].data),
     dataOffset |-> 0, stringOffset |-> 0]

\* A variant of AddFiles' loop that goes on after a failing path.
AddLoopContinue(entries, paths, i) ==
    LET rest == SubSeq(paths, i, Len(paths))
        found == SelectSeq(rest, LAMBDA p : fs[p].exists)
    IN  [entries |-> entries \o [j \in 1..Len(found) |-> NewEntry(found[j])],
         err |-> IF Len(found) = Len(rest) THEN "nil" ELSE "stat",
         stats |-> Len(paths)]

\* AddFiles' loop over paths[i..]: the entries after it, the error it
\* returns and the number of paths it called AddFile (os.Stat) for.
RECURSIVE AddLoop(_, _, _)
AddLoop(entries, paths, i) ==
    IF i > Len(paths) THEN [entries |-> entries, err |-> "nil", stats |-> i - 1]
    ELSE IF ~fs[paths[i]].exists
         THEN [entries |-> entries, err |-> "stat", stats |-> i]
         ELSE AddLoop(Append(entries, NewEntry(paths[i])), paths, i + 1)

AddFile(path) ==
    /\ pc = "idle"
    /\ LET r == AddLoop(partEntries, <<path>>, 1)
       IN  /\ Len(r.entries) <= MaxEntries
           /\ partEntries' = r.entries
           /\ lastErr' = r.err
           /\ lastCall' = [n |-> 1, stats |-> r.stats]
    /\ UNCHANGED <<fs, mutations, outFile, outPos, BufferSize, pc, header, idx,
                   inPos, bytesWritten, processedSize, opened, lastWrite>>

AddFiles(paths) ==
    /\ pc = "idle"
    /\ LET r == AddLoop(partEntries, paths, 1)
       IN  /\ Len(r.entries) <= MaxEntries
           /\ partEntries' = r.entries
           /\ lastErr' = r.err
           /\ lastCall' = [n |-> Len(paths), stats |-> r.stats]
    /\ UNCHANGED <<fs, mutations, outFile, outPos, BufferSize, pc, header, idx,
                   inPos, bytesWritten, processedSize, opened, lastWrite>>

\* The environment changes a registered source file after AddFile recorded
\* its size and before Build opens it: the file grows by one byte or loses
\* its last byte.  Build reads no source file before its header is
\* generated, so the change is placed right after that step.
Registered(p) == \E i \in 1..Len(partEntries) : partEntries[i].path = p

Grow(p) ==
    /\ pc = "generated"
    /\ mutations < MaxMutations
    /\ Registered(p)
    /\ fs' = [fs EXCEPT ![p].data = Append(@, 99)]
    /\ mutations' = mutations + 1
    /\ UNCHANGED <<outFile, outPos, BufferSize, partEntries, pc, header, idx,
                   inPos, bytesWritten, processedSize, lastErr, lastCall,
                   opened, lastWrite>>

Shrink(p) ==
    /\ pc = "generated"
    /\ mutations < MaxMutations
    /\ Registered(p)
    /\ Len(fs[p].data) > 0
    /\ fs' = [fs EXCEPT ![p].data = SubSeq(@, 1, Len(@) - 1)]
    /\ mutations' = mutations + 1
    /\ UNCHANGED <<outFile, outPos, BufferSize, partEntries, pc, header, idx,
                   inPos, bytesWritten, processedSize, lastErr, lastCall,
                   opened, lastWrite>>

\* ------------------------------------------------------------------- sort
\* Variants of the comparison: with its operands swapped, and on the sizes.
EntryLessSwapped(a, b) == StringLess(b.name, a.name)

EntryLessBySize(a, b) == a.size < b.size

\* The comparison Build hands to sort.Slice.
EntryLess(a, b) == StringLess(a.name, b.name)

IsSorted(entries) ==
    \A i \in 1..Len(entries) : \A j \in 1..Len(entries) :
        i < j => ~EntryLess(entries[j], entries[i])

Bijections(n) ==
    {f \in [1..n -> 1..n] : \A i \in 1..n : \A j \in 1..n : i # j => f[i] # f[j]}

\* sort.Slice is not stable: it leaves the entries in any order that is a
\* rearrangement of them and sorted by the comparison.
SortOutcomes(entries) ==
    {t \in {[i \in 1..Len(entries) |-> entries[f[i]]] :
                f \in Bijections(Len(entries))} : IsSorted(t)}

\* ----------------------------------------------------------- generateHeader
RECURSIVE StringTableSize(_)
StringTableSize(entries) ==
    IF entries = <<>> THEN 0
    ELSE Len(Head(entries).name) + 1 + StringTableSize(Tail(entries))

PartitionTableSize(entries) == Len(entries) * 24

\* headerSize before the alignment to 16 bytes.
UnalignedHeaderSize(entries) ==
    16 + PartitionTableSize(entries) + StringTableSize(entries)

\* A variant of the alignment without the test for a remainder of 0.
PaddingUnguarded(entries) == 16 - (UnalignedHeaderSize(entries) % 16)

Padding(entries) ==
    LET remainder == UnalignedHeaderSize(entries) % 16
    IN  IF remainder > 0 THEN 16 - remainder ELSE 0

HeaderSize(entries) == UnalignedHeaderSize(entries) + Padding(entries)

\* The header after the writes of the magic, EntryCount, StringTableSize and
\* the reserved field into the zeroed buffer.
HeaderMetadata(entries) ==
    LET h0 == Zeros(HeaderSize(entries))
        h1 == PutAt(h0, 0, PFS0Magic)
        h2 == PutAt(h1, 4, LittleEndian(Len(entries), 4))
        h3 == PutAt(h2, 8, LittleEndian(StringTableSize(entries)
                                          + Padding(entries), 4))
    IN  PutAt(h3, 12, LittleEndian(0, 4))

\* A variant that stores the offset relative to the payload region.
RelativeDataOffset(fileDataBaseOffset, fileDataOffset) == fileDataOffset

\* file.dataOffset = fileDataBaseOffset + fileDataOffset
AbsoluteDataOffset(fileDataBaseOffset, fileDataOffset) ==
    fileDataBaseOffset + fileDataOffset

\* The loop over the entries that writes the PartitionEntryTable, from entry
\* i on: st = [header, entries, headerPosition, stringOffset, fileDataOffset].
RECURSIVE EntryTableLoop(_, _)
EntryTableLoop(st, i) ==
    IF i > Len(st.entries) THEN st
    ELSE LET file == st.entries[i]
             base == HeaderSize(st.entries)
             h1 == PutAt(st.header, st.headerPosition,
                         LittleEndian(st.fileDataOffset, 8))
             h2 == PutAt(h1, st.headerPosition + 8, LittleEndian(file.size, 8))
             h3 == PutAt(h2, st.headerPosition + 16,
                         LittleEndian(st.stringOffset, 4))
             h4 == PutAt(h3, st.headerPosition + 20, LittleEndian(0, 4))
         IN  EntryTableLoop(
                 [header |-> h4,
                  entries |-> [st.entries EXCEPT
                      ![i].dataOffset = AbsoluteDataOffset(base, st.fileDataOffset),
                      ![i].stringOffset = st.stringOffset],
                  headerPosition |-> st.headerPosition + 24,
                  stringOffset |-> st.stringOffset + Len(file.name) + 1,
                  fileDataOffset |-> st.fileDataOffset + file.size],
                 i + 1)

\* The loop that writes the names into the string table, from entry i on.
RECURSIVE StringTableLoop(_, _, _)
StringTableLoop(hdr, entries, i) ==
    IF i > Len(entries) THEN hdr
    ELSE LET stringTableOffset == 16 + PartitionTableSize(entries)
             nameOffset == stringTableOffset + entries[i].stringOffset
         IN  StringTableLoop(PutAt(hdr, nameOffset, entries[i].name),
                             entries, i + 1)

\* generateHeader: the header, and the entries with their offsets set.
GenerateHeader(entries) ==
    LET st == EntryTableLoop(
                  [header |-> HeaderMetadata(entries), entries |-> entries,
                   headerPosition |-> 16, stringOffset |-> 0,
                   fileDataOffset |-> 0], 1)
    IN  [header |-> StringTableLoop(st.header, st.entries, 1),
         entries |-> st.entries]

\* --------------------------------------------------------------------- Build
\* A variant of Build that creates the output file before it looks at the
\* entries.
BuildEmptyAfterCreate ==
    /\ pc = "idle"
    /\ Len(partEntries) = 0
    /\ outFile' = [exists |-> TRUE, data |-> <<>>]
    /\ pc' = "failed"
    /\ lastErr' = "EmptyInput"
    /\ lastCall' = [n |-> 0, stats |-> 0]
    /\ UNCHANGED <<fs, mutations, outPos, BufferSize, partEntries, header, idx,
                   inPos, bytesWritten, processedSize, opened, lastWrite>>

\* Build with no entries: the error, before anything is touched.
BuildEmpty ==
    /\ pc = "idle"
    /\ Len(partEntries) = 0
    /\ pc' = "failed"
    /\ lastErr' = "EmptyInput"
    /\ lastCall' = [n |-> 0, stats |-> 0]
    /\ UNCHANGED <<fs, mutations, outFile, outPos, BufferSize, partEntries,
                   header, idx, inPos, bytesWritten, processedSize, opened,
                   lastWrite>>

\* The start of Build with entries: the sort, to the outcome sorted, and
\* generateHeader.
BuildGenerate(sorted) ==
    /\ pc = "idle"
    /\ Len(partEntries) > 0
    /\ sorted \in SortOutcomes(partEntries)
    /\ LET g == GenerateHeader(sorted)
       IN  partEntries' = g.entries /\ header' = g.header
    /\ lastCall' = [n |-> 0, stats |-> 0]
    /\ pc' = "generated"
    /\ lastErr' = "nil"
    /\ UNCHANGED <<fs, mutations, outFile, outPos, BufferSize, idx, inPos,
                   bytesWritten, processedSize, opened, lastWrite>>

\* os.Create fails.
BuildCreateFail ==
    /\ pc = "generated"
    /\ pc' = "failed"
    /\ lastErr' = "create"
    /\ UNCHANGED <<fs, mutations, outFile, outPos, BufferSize, partEntries,
                   header, idx, inPos, bytesWritten, processedSize, lastCall,
                   opened, lastWrite>>

\* os.Create truncates the output file; the write of the header fails after
\* k of its bytes.
BuildHeaderFail(k) ==
    /\ pc = "generated"
    /\ k < Len(header)
    /\ outFile' = [exists |-> TRUE, data |-> SubSeq(header, 1, k)]
    /\ outPos' = k
    /\ pc' = "failed"
    /\ lastErr' = "write header"
    /\ UNCHANGED <<fs, mutations, BufferSize, partEntries, header, idx, inPos,
                   bytesWritten, processedSize, lastCall, opened, lastWrite>>

\* os.Create truncates the output file and the header is written.
BuildHeaderWritten ==
    /\ pc = "generated"
    /\ outFile' = [exists |-> TRUE, data |-> header]
    /\ outPos' = Len(header)
    /\ pc' = "headerWritten"
    /\ UNCHANGED <<fs, mutations, BufferSize, partEntries, header, idx, inPos,
                   bytesWritten, processedSize, lastErr, lastCall, opened,
                   lastWrite>>

\* ------------------------------------------------------------ copyFileToNSP
\* Build's loop calls copyFileToNSP for the next entry.
CopyCall ==
    /\ pc \in {"headerWritten", "copied"}
    /\ idx < Len(partEntries)
    /\ idx' = idx + 1
    /\ opened' = Append(opened, idx + 1)

CopyOpenFail ==
    /\ CopyCall
    /\ pc' = "failed"
    /\ lastErr' = "open"
    /\ UNCHANGED <<fs, mutations, outFile, outPos, BufferSize, partEntries,
                   header, inPos, bytesWritten, processedSize, lastCall,
                   lastWrite>>

CopySeekFail ==
    /\ CopyCall
    /\ pc' = "failed"
    /\ lastErr' = "seek"
    /\ UNCHANGED <<fs, mutations, outFile, outPos, BufferSize, partEntries,
                   header, inPos, bytesWritten, processedSize, lastCall,
                   lastWrite>>

\* The source file is opened and the output file is at the entry's dataOffset.
CopyOpen ==
    /\ CopyCall
    /\ pc' = "copying"
    /\ inPos' = 0
    /\ bytesWritten' = 0
    /\ outPos' = partEntries[idx + 1].dataOffset
    /\ UNCHANGED <<fs, mutations, outFile, BufferSize, partEntries, header,
                   processedSize, lastErr, lastCall, lastWrite>>

\* What the entry's source file holds now.
SourceData == fs[partEntries[idx].path].data

\* inFile.Read(buffer): the number of bytes read into a buffer of BufferSize
\* bytes; none at or past the end of the file.
ReadCount == Max(0, Min(BufferSize, Len(SourceData) - inPos))

CopyReadFail ==
    /\ pc = "copying"
    /\ pc' = "failed"
    /\ lastErr' = "read"
    /\ UNCHANGED <<fs, mutations, outFile, outPos, BufferSize, partEntries,
                   header, idx, inPos, bytesWritten, processedSize, lastCall,
                   opened, lastWrite>>

\* One turn of the copy loop that read n > 0 bytes and wrote them.
CopyChunk ==
    /\ pc = "copying"
    /\ ReadCount > 0
    /\ outFile' = [outFile EXCEPT !.data =
           WriteAt(@, outPos, SubSeq(SourceData, inPos + 1, inPos + ReadCount))]
    /\ lastWrite' = [entry |-> idx, off |-> outPos, len |-> ReadCount]
    /\ outPos' = outPos + ReadCount
    /\ inPos' = inPos + ReadCount
    /\ bytesWritten' = bytesWritten + ReadCount
    /\ processedSize' = processedSize + ReadCount
    /\ UNCHANGED <<fs, mutations, BufferSize, partEntries, pc, header, idx,
                   lastErr, lastCall, opened>>

\* The byte counts a failing write of the bytes read may have written.
WriteCounts == IF pc = "copying" THEN 0..(ReadCount - 1) ELSE {}

\* One turn of the copy loop that read n > 0 bytes and failed to write them,
\* after k of them were written: copyFileToNSP returns before it counts
\* them.
CopyWriteFail(k) ==
    /\ pc = "copying"
    /\ ReadCount > 0
    /\ k \in WriteCounts
    /\ outFile' = [outFile EXCEPT !.data =
           WriteAt(@, outPos, SubSeq(SourceData, inPos + 1, inPos + k))]
    /\ lastWrite' = IF k > 0 THEN [entry |-> idx, off |-> outPos, len |-> k]
                    ELSE lastWrite
    /\ outPos' = outPos + k
    /\ inPos' = inPos + ReadCount
    /\ pc' = "failed"
    /\ lastErr' = "write"
    /\ UNCHANGED <<fs, mutations, BufferSize, partEntries, header, idx,
                   bytesWritten, processedSize, lastCall, opened>>

\* A variant of the end of the copy loop without the check of the size.
CopyFinishUnchecked ==
    /\ pc = "copying"
    /\ ReadCount = 0
    /\ pc' = IF idx = Len(partEntries) THEN "done" ELSE "copied"
    /\ lastErr' = "nil"
    /\ UNCHANGED <<fs, mutations, outFile, outPos, BufferSize, partEntries,
                   header, idx, inPos, bytesWritten, processedSize, lastCall,
                   opened, lastWrite>>

\* The turn of the copy loop that read nothing: the loop ends, the size is
\* checked, and Build goes on to the next entry or returns.
CopyFinish ==
    /\ pc = "copying"
    /\ ReadCount = 0
    /\ IF bytesWritten # partEntries[idx].size
       THEN pc' = "failed" /\ lastErr' = "SizeMismatch"
       ELSE /\ pc' = IF idx = Len(partEntries) THEN "done" ELSE "copied"
            /\ lastErr' = "nil"
    /\ UNCHANGED <<fs, mutations, outFile, outPos, BufferSize, partEntries,
                   header, idx, inPos, bytesWritten, processedSize, lastCall,
                   opened, lastWrite>>

\* ------------------------------------------------------------ specification
Init ==
    /\ fs = [p \in Paths |-> [exists |-> p # PathMissing, data |-> InitialData(p)]]
    /\ mutations = 0
    /\ outFile \in {[exists |-> FALSE, data |-> <<>>],
                    [exists |-> TRUE, data |-> StaleData]}
    /\ outPos = 0
    /\ BufferSize \in BufferSizes
    /\ partEntries = <<>>
    /\ pc = "idle"
    /\ header = <<>>
    /\ idx = 0
    /\ inPos = 0
    /\ bytesWritten = 0
    /\ processedSize = 0
    /\ lastErr = "nil"
    /\ lastCall = [n |-> 0, stats |-> 0]
    /\ opened = <<>>
    /\ lastWrite = [entry |-> 0, off |-> 0, len |-> 0]

Next ==
    \/ \E p \in Paths : AddFile(p)
    \/ \E ps \in PathLists : AddFiles(ps)
    \/ \E p \in Paths : Grow(p)
    \/ \E p \in Paths : Shrink(p)
    \/ BuildEmpty
    \/ \E sorted \in SortOutcomes(partEntries) : BuildGenerate(sorted)
    \/ BuildCreateFail
    \/ \E k \in ShortWrites : BuildHeaderFail(k)
    \/ BuildHeaderWritten
    \/ CopyOpenFail
    \/ CopySeekFail
    \/ CopyOpen
    \/ CopyReadFail
    \/ CopyChunk
    \/ \E k \in WriteCounts : CopyWriteFail(k)
    \/ CopyFinish

Spec == Init /\ [][Next]_vars

\* ================================================================ the claims
\* ------------------------------------------------- reading an archive back
\* The value of the little-endian bytes.
RECURSIVE LittleEndianValue(_)
LittleEndianValue(bytes) ==
    IF bytes = <<>> THEN 0
    ELSE Head(bytes) + 256 * LittleEndianValue(Tail(bytes))

\* The n bytes of data from byte offset off.
Slice(data, off, n) == SubSeq(data, off + 1, off + n)

DeclaredEntryCount(data) == LittleEndianValue(Slice(data, 4, 4))
DeclaredStringTableSize(data) == LittleEndianValue(Slice(data, 8, 4))

\* The fields of the i-th 24-byte record.
RecordDataOffset(data, i) == LittleEndianValue(Slice(data, 16 + 24 * (i - 1), 8))
RecordSize(data, i) == LittleEndianValue(Slice(data, 16 + 24 * (i - 1) + 8, 8))
RecordStringOffset(data, i) ==
    LittleEndianValue(Slice(data, 16 + 24 * (i - 1) + 16, 4))

\* Where the payload region starts, as a reader of the archive finds it.
DeclaredHeaderSize(data) ==
    16 + 24 * DeclaredEntryCount(data) + DeclaredStringTableSize(data)

\* The null-terminated name at offset off of the string table.
RECURSIVE NameFrom(_, _)
NameFrom(data, pos) ==
    IF pos >= Len(data) \/ data[pos + 1] = 0 THEN <<>>
    ELSE <<data[pos + 1]>> \o NameFrom(data, pos + 1)

RecordName(data, i) ==
    NameFrom(data, 16 + 24 * DeclaredEntryCount(data) + RecordStringOffset(data, i))

RecordPayload(data, i) ==
    Slice(data, DeclaredHeaderSize(data) + RecordDataOffset(data, i),
          RecordSize(data, i))

\* The header has been generated (Build got past the sort and generateHeader).
Generated == pc \notin {"idle"} /\ header # <<>>

Indices == 1..Len(partEntries)

DistinctNames ==
    \A i \in Indices : \A j \in Indices :
        i # j => partEntries[i].name # partEntries[j].name

RECURSIVE SumSizes(_)
SumSizes(entries) ==
    IF entries = <<>> THEN 0 ELSE Head(entries).size + SumSizes(Tail(entries))

RECURSIVE Payloads(_)
Payloads(entries) ==
    IF entries = <<>> THEN <<>>
    ELSE fs[Head(entries).path].data \o Payloads(Tail(entries))

\* The first size bytes of each entry's source file, in the entries' order.
RECURSIVE RecordedPayloads(_)
RecordedPayloads(entries) ==
    IF entries = <<>> THEN <<>>
    ELSE LET e == Head(entries)
         IN  SubSeq(fs[e.path].data, 1, e.size) \o RecordedPayloads(Tail(entries))

\* C1 (as stated): once the header is generated, its declared entry count is
\* the number of entries and the stored names are strictly ascending.
C1_StrictlyAscending ==
    Generated =>
        /\ DeclaredEntryCount(header) = Len(partEntries)
        /\ \A i \in Indices : i < Len(partEntries) =>
               StringLess(partEntries[i].name, partEntries[i + 1].name)

\* C1 (amended): the sort and generateHeader keep the registered entries (the
\* same number, each with the base name of its path), the header declares
\* that number, the record table names them in the entries' order, and the
\* stored names never descend: no name is less than its predecessor; they
\* ascend strictly when the registered base names are pairwise distinct.
C1_Ascending ==
    /\ [](Generated =>
            /\ DeclaredEntryCount(header) = Len(partEntries)
            /\ \A i \in Indices :
                   /\ partEntries[i].name = BaseName(partEntries[i].path)
                   /\ RecordName(header, i) = partEntries[i].name
            /\ \A i \in Indices : i < Len(partEntries) =>
                   /\ ~StringLess(partEntries[i + 1].name, partEntries[i].name)
                   /\ DistinctNames =>
                          StringLess(partEntries[i].name, partEntries[i + 1].name))
    /\ [][pc = "idle" /\ pc' = "generated" =>
            /\ Len(partEntries') = Len(partEntries)
            /\ \E f \in Bijections(Len(partEntries)) : \A i \in Indices :
                   /\ partEntries'[i].path = partEntries[f[i]].path
                   /\ partEntries'[i].size = partEntries[f[i]].size]_vars

\* C1's case: three entries, two of them with the same stored name, sorted.
C1_Witness ==
    /\ Generated
    /\ Len(partEntries) = 3
    /\ partEntries[1].name = <<97, 98, 99>>
    /\ partEntries[2].path = PathEB
    /\ partEntries[3].path = PathDB

\* C2: once the header is generated, the first entry's dataOffset is the
\* header's length, each next dataOffset is the previous one plus the
\* previous size, and each record holds dataOffset - headerSize and the size.
C2_ContiguousOffsets ==
    Generated =>
        /\ partEntries[1].dataOffset = Len(header)
        /\ \A i \in Indices : i < Len(partEntries) =>
               partEntries[i + 1].dataOffset
                   = partEntries[i].dataOffset + partEntries[i].size
        /\ \A i \in Indices :
               /\ RecordDataOffset(header, i)
                      = partEntries[i].dataOffset - Len(header)
               /\ RecordSize(header, i) = partEntries[i].size

\* C2's case: three entries, the first two of them not empty.
C2_Witness ==
    /\ Generated
    /\ Len(partEntries) = 3
    /\ partEntries[1].size > 0
    /\ partEntries[2].size > 0
    /\ partEntries[3].dataOffset > partEntries[2].dataOffset

\* The bytes of the names with their terminators, counted from the entries.
NameBytes ==
    LET RECURSIVE Sum(_)
        Sum(i) == IF i = 0 THEN 0 ELSE Len(partEntries[i].name) + 1 + Sum(i - 1)
    IN  Sum(Len(partEntries))

\* C3: the header's length is a multiple of 16 and is 16 + 24 * count + the
\* names' bytes + a padding of 0 to 15 bytes; the size declared at 0x08 is
\* the names' bytes plus that padding; the stored strings are where the
\* records say.  With no entry the header is the 16-byte prologue.
C3_HeaderSize ==
    /\ Len(GenerateHeader(<<>>).header) = 16
    /\ Generated =>
        LET padding == Len(header) - 16 - 24 * Len(partEntries) - NameBytes
        IN  /\ Len(header) % 16 = 0
            /\ 0 <= padding /\ padding < 16
            /\ DeclaredStringTableSize(header) = NameBytes + padding
            /\ Slice(header, 0, 4) = PFS0Magic
            /\ Slice(header, 12, 4) = <<0, 0, 0, 0>>
            /\ Slice(header, Len(header) - padding, padding) = Zeros(padding)

\* C3's case: a header that needs no padding (16 + 72 + 8 = 96 bytes).
C3_Witness ==
    /\ Generated
    /\ Len(partEntries) = 3
    /\ Len(header) = 16 + 24 * 3 + NameBytes

\* C4: after a Build that returned success, the output file is the header
\* followed by the payloads in the entries' order, and reading each entry
\* back through its record of the file gives its stored name and the bytes
\* of its source file.
C4_RoundTrip ==
    pc = "done" =>
        /\ outFile.exists
        /\ outFile.data = header \o Payloads(partEntries)
        /\ Len(outFile.data) = Len(header) + SumSizes(partEntries)
        /\ DeclaredEntryCount(outFile.data) = Len(partEntries)
        /\ DeclaredHeaderSize(outFile.data) = Len(header)
        /\ \A i \in Indices :
               /\ RecordName(outFile.data, i) = BaseName(partEntries[i].path)
               /\ RecordPayload(outFile.data, i) = fs[partEntries[i].path].data

\* C5: Build with no entry returns EmptyInput at once: the step leaves the
\* output file as it was (not created, not truncated), generates no header,
\* and Build does nothing after it.
C5_EmptyInput ==
    /\ [](lastErr = "EmptyInput" =>
            pc = "failed" /\ header = <<>> /\ partEntries = <<>> /\ opened = <<>>)
    /\ [][pc = "idle" /\ partEntries = <<>> /\ pc' # "idle" =>
            /\ pc' = "failed"
            /\ lastErr' = "EmptyInput"
            /\ outFile' = outFile
            /\ outPos' = outPos
            /\ header' = <<>>]_vars
    /\ [][lastErr # "EmptyInput"]_vars

\* C5's case: Build failed with EmptyInput and the stale output file of an
\* earlier run is still there.
C5_Witness ==
    /\ lastErr = "EmptyInput"
    /\ outFile = [exists |-> TRUE, data |-> StaleData]

\* The index of the first path of ps whose stat fails (0: none).
FirstFailure(ps) ==
    LET bad == {i \in 1..Len(ps) : ~fs[ps[i]].exists}
    IN  IF bad = {} THEN 0 ELSE CHOOSE i \in bad : \A j \in bad : i <= j

\* What a registration call with the paths ps leaves.
AddPost(ps) ==
    LET k == FirstFailure(ps)
        m == IF k = 0 THEN Len(ps) ELSE k - 1
    IN  /\ lastErr' = IF k = 0 THEN "nil" ELSE "stat"
        /\ Len(partEntries') = Len(partEntries) + m
        /\ SubSeq(partEntries', 1, Len(partEntries)) = partEntries
        /\ \A i \in 1..m :
               partEntries'[Len(partEntries) + i] =
                   [path |-> ps[i], name |-> BaseName(ps[i]),
                    size |-> Len(fs[ps[i]].data),
                    dataOffset |-> 0, stringOffset |-> 0]
        /\ lastCall'.n = Len(ps)
        /\ lastCall'.stats = IF k = 0 THEN Len(ps) ELSE k
        /\ fs' = fs
        /\ outFile' = outFile

\* C6: AddFile on a path whose stat fails returns the error and leaves the
\* entries as they were; AddFiles whose first failing path is at index k
\* returns the error, has appended the entries of the paths before it, in
\* order, and has called stat for no path after it.
C6_PartialRegistration ==
    [][(pc = "idle" /\ pc' = "idle") =>
           /\ \A p \in Paths : AddFile(p) => AddPost(<<p>>)
           /\ \A ps \in PathLists : AddFiles(ps) => AddPost(ps)]_vars

\* C6's case: AddFiles of three paths on a builder that held an entry failed
\* at its second path, after one more entry and two calls of stat.
C6_Witness ==
    /\ pc = "idle"
    /\ lastErr = "stat"
    /\ lastCall = [n |-> 3, stats |-> 2]
    /\ Len(partEntries) = 2
    /\ partEntries[1].path # partEntries[2].path

\* The entries as AddFile leaves them.
Stripped(entries) ==
    [i \in 1..Len(entries) |->
        [entries[i] EXCEPT !.dataOffset = 0, !.stringOffset = 0]]

\* What builders that registered the same files in any order generate.
OtherBuilds ==
    LET regs == {[i \in Indices |-> Stripped(partEntries)[f[i]]] :
                     f \in Bijections(Len(partEntries))}
    IN  UNION {{GenerateHeader(t) : t \in SortOutcomes(r)} : r \in regs}

SameAsOtherBuilds ==
    \A g \in OtherBuilds :
        /\ g.entries = partEntries
        /\ g.header = header
        /\ pc = "done" => outFile.data = g.header \o RecordedPayloads(g.entries)

\* C7 (as stated): every builder that registered the same files, in any
\* order, generates the same sorted entries, offsets and header, and the
\* archive Build finishes is the one that builder's header and order give.
C7_OrderIndependent ==
    pc \in {"generated", "done"} => SameAsOtherBuilds

\* C7 (amended): the same, for files whose stored names are pairwise
\* distinct.
C7_OrderIndependentDistinctNames ==
    (pc \in {"generated", "done"} /\ DistinctNames) => SameAsOtherBuilds

\* C7's case: a finished archive of three files with distinct names.
C7_Witness ==
    /\ pc = "done"
    /\ DistinctNames
    /\ Len(partEntries) = 3
    /\ partEntries[3].path = PathEB

\* C8: Build goes idle -> generated -> headerWritten -> copying(1) -> ... ->
\* copying(n) -> done through the entries in order, opening each once; an
\* entry's copy ends well only with as many bytes copied as its recorded
\* size; done and failed are final; a failure comes with an error and
\* leaves the output file as the failing step found it, but for the bytes
\* a failing write wrote before its error (what was written before stays);
\* the output file, once there, is never removed.
C8_BuildStates ==
    /\ [](/\ opened = [i \in 1..idx |-> i]
          /\ pc \in {"copying", "copied", "done"} => idx >= 1
          /\ pc = "done" => idx = Len(partEntries) /\ lastErr = "nil"
          /\ pc = "failed" => lastErr # "nil"
          /\ pc \in {"headerWritten", "copying", "copied", "done"} =>
                 outFile.exists /\ Slice(outFile.data, 0, Len(header)) = header)
    /\ [][/\ pc \notin {"done", "failed"}
          /\ pc = "idle" => pc' \in {"idle", "generated", "failed"}
          /\ pc = "generated" => pc' \in {"generated", "headerWritten", "failed"}
          /\ pc \in {"headerWritten", "copied"} =>
                 /\ pc' \in {"copying", "failed"}
                 /\ idx' = idx + 1
                 /\ idx' <= Len(partEntries)
          /\ pc = "copying" =>
                 /\ pc' \in {"copying", "copied", "done", "failed"}
                 /\ idx' = idx
          /\ (pc = "copying" /\ pc' \in {"copied", "done"}) =>
                 /\ bytesWritten = partEntries[idx].size
                 /\ outPos = partEntries[idx].dataOffset + bytesWritten
                 /\ (pc' = "done") = (idx = Len(partEntries))
          /\ (pc = "copying" /\ ReadCount = 0
                /\ bytesWritten # partEntries[idx].size) =>
                 pc' = "failed" /\ lastErr' \in {"SizeMismatch", "read"}
          /\ (pc' = "failed" /\ lastErr' \notin {"write header", "write"}) =>
                 outFile' = outFile
          /\ (pc' = "failed" /\ lastErr' = "write") =>
                 /\ Len(outFile'.data) >= Len(outFile.data)
                 /\ Slice(outFile'.data, 0, outPos) = Slice(outFile.data, 0, outPos)
                 /\ bytesWritten' = bytesWritten
          /\ outFile.exists => outFile'.exists]_vars

\* C8's case: the second of three entries had changed since AddFile; Build
\* failed with SizeMismatch, never opened the third, and left the header and
\* the first payload in the output file.
C8_Witness ==
    /\ pc = "failed"
    /\ lastErr = "SizeMismatch"
    /\ Len(partEntries) = 3
    /\ opened = <<1, 2>>
    /\ partEntries[1].size > 0
    /\ Len(outFile.data) > Len(header)

\* C9: every payload write of the copy of an entry lies inside the entry's
\* region [dataOffset, dataOffset + size) of the output file.
C9_WritesInsideRegion ==
    lastWrite.len > 0 =>
        /\ partEntries[lastWrite.entry].dataOffset <= lastWrite.off
        /\ lastWrite.off + lastWrite.len
               <= partEntries[lastWrite.entry].dataOffset
                      + partEntries[lastWrite.entry].size

\* No registered source file differs in length from its recorded size.
NoSourceChanged ==
    \A i \in Indices : Len(fs[partEntries[i].path].data) = partEntries[i].size

\* The errors of failing file system operations.
IOErrors == {"create", "write header", "open", "seek", "read", "write"}

\* C10: with an entry registered, no source file changed and no failing
\* file system operation, Build does not fail, whatever BufferSize is, and
\* the archive it finishes is the header and the payloads.
C10_AnyBufferSize ==
    /\ (pc = "failed" /\ Len(partEntries) > 0 /\ NoSourceChanged) =>
           lastErr \in IOErrors
    /\ (pc = "done" /\ NoSourceChanged) =>
           outFile.data = header \o Payloads(partEntries)
====
